---- MODULE Spec2Model ----
(***************************************************************************)
(* Model of request_cache (src/src/lib.rs): a lookaside cache for HTTP     *)
(* responses kept in one SQLite table `requests`.                          *)
(*                                                                         *)
(* A caller runs request(); every `.await` of the source is a suspension   *)
(* point, so each caller advances through the steps                        *)
(*   query -> send -> delete -> insert -> done                             *)
(* and the steps of different callers interleave.  A row of the table is   *)
(* the positional tuple <<request, method, response, expires>> of the      *)
(* CREATE TABLE statement; the table is the sequence of its rows in        *)
(* insertion (rowid) order.                                                *)
(*                                                                         *)
(* Besides the locals of each call, the state keeps what the call did:      *)
(* looked (the lookup ran), fetched (the transport was called), sent (the   *)
(* call the transport was given), deleted (the rows its DELETE removed),   *)
(* failed (the statements of the call the store answered with an error),   *)
(* alone (no other call was under way when it was issued).  schema tells   *)
(* whether the table `requests` exists in the database file.               *)
(*                                                                         *)
(* A call that has returned or panicked is retired (its locals dropped)    *)
(* before any other step is taken: retiring touches no shared state, so    *)
(* taking it at once loses no behaviour of the store.                      *)
(***************************************************************************)
EXTENDS Integers, Sequences, FiniteSets, TLC

\* ---------------------------------------------------------------- bounds
\* The transport answers at most MaxFetches times, the clock stops at MaxTime,
\* and a TTL argument is at most MaxTimeout.
MaxFetches == 2
MaxTime == 1
MaxTimeout == 2

\* Two callers share the connection.
Callers == {1, 2}
\* The identities (url, method) requested by calls that do not overlap.
Identities == {<<"http://a", "GET">>, <<"http://a", "POST">>, <<"http://b", "GET">>}
\* The identity overlapping calls contend for.
RaceIdentities == {<<"http://a", "GET">>}
\* The values of the timeout argument (the TTL in seconds).
Timeouts == 0..MaxTimeout
\* The same with a negative value (timeout is an i64).
SignedTimeouts == (0 - 1)..MaxTimeout
\* The values of the force_refresh argument.
ForceOpts == {"None", "Some(false)", "Some(true)"}

VARIABLES now, table, pc, url, method, timeout, force_refresh,
          current_time, record, deleted, result, responses,
          looked, fetched, alone, failed, schema, sent

vars == <<now, table, pc, url, method, timeout, force_refresh,
          current_time, record, deleted, result, responses,
          looked, fetched, alone, failed, schema, sent>>

\* ------------------------------------------------------------ data model
\* struct Record
Record(req, meth, resp, exp, c) ==
    [request |-> req, method |-> meth, response |-> resp,
     expires |-> exp, cached |-> c]

\* The value of a Record variable that has not been assigned yet.  A response
\* body is modelled by the serial number of the transport response carrying it
\* (0: none), so that the bodies of different fetches can be told apart.
NoRecord == Record("", "", 0, 0, FALSE)

\* force_refresh.unwrap_or(false)
UnwrapOrFalse(opt) == opt = "Some(true)"

\* Mutant: the two parameters bound to the wrong columns.
SelectMatchesSwapped(row, u, m) == row[1] = m /\ row[2] = u

\* Mutant: the method is left out of the WHERE clause.
SelectMatchesUrlOnly(row, u, m) == row[1] = u

\* WHERE request = ?1 AND method = ?2 of the SELECT
SelectMatches(row, u, m) == row[1] = u /\ row[2] = m

\* Mutant: expires >= ?3.
LiveOrEqual(row, t) == row[4] >= t

\* AND expires > ?3 of the SELECT
Live(row, t) == row[4] > t

\* Mutant: LIMIT 1 without the ORDER BY, any live row of the identity.
QueryCandidatesAnyLive(tbl, u, m, t) ==
    {tbl[i] : i \in {j \in 1..Len(tbl) : SelectMatches(tbl[j], u, m) /\ Live(tbl[j], t)}}

\* The rows the SELECT may return: ORDER BY expires DESC LIMIT 1 keeps a row
\* of the largest expires; the order among equal expires is unspecified.
QueryCandidates(tbl, u, m, t) ==
    LET hits == {i \in 1..Len(tbl) : SelectMatches(tbl[i], u, m) /\ Live(tbl[i], t)}
    IN  {tbl[i] : i \in {j \in hits : \A k \in hits : tbl[k][4] <= tbl[j][4]}}

\* The row closure of get_record: positional decoding of the columns.
DecodeRow(row) == Record(row[2], row[1], row[3], row[4], TRUE)

\* Mutant: the two parameters bound to the wrong columns.
DeleteMatchesSwapped(row, u, m) == row[1] = m /\ row[2] = u

\* Mutant: the method is left out of the WHERE clause.
DeleteMatchesUrlOnly(row, u, m) == row[1] = u

\* WHERE request = ?1 AND method = ?2 of the DELETE
DeleteMatches(row, u, m) == row[1] = u /\ row[2] = m

\* Mutant: the DELETE statement is dropped.
DeleteRowsNone(tbl, u, m) == tbl

\* DELETE FROM requests WHERE ...
DeleteRows(tbl, u, m) == SelectSeq(tbl, LAMBDA row : ~DeleteMatches(row, u, m))

\* params![record.request, record.method, record.response, record.expires]
RowOf(rec) == <<rec.request, rec.method, rec.response, rec.expires>>

\* INSERT INTO requests VALUES (?1, ?2, ?3, ?4)
InsertRow(tbl, rec) == Append(tbl, RowOf(rec))

\* Mutant: the table is created anew by every connection.
CreateTableAnew(exists, tbl) == <<>>

\* CREATE TABLE IF NOT EXISTS requests (...): the rows of the table after the
\* statement, given whether the table exists and the rows it has
CreateTable(exists, tbl) == IF exists THEN tbl ELSE <<>>

\* client.get(url): the call handed to the transport, as <<url, method>>
ClientGet(u) == <<u, "GET">>

\* The rows stored for an identity, in insertion order.
RowsFor(tbl, u, m) == SelectSeq(tbl, LAMBDA row : row[1] = u /\ row[2] = m)

\* The call of p is under way.
InFlight(p) == pc[p] \in {"query", "send", "delete", "insert"}

\* No call has just returned or panicked.
NoneFinished == \A q \in Callers : pc[q] \notin {"done", "panicked"}


\* ------------------------------------------------------------------ Init
Init ==
    /\ now = 0
    /\ table = <<>>
    /\ pc = [p \in Callers |-> "idle"]
    /\ url = [p \in Callers |-> ""]
    /\ method = [p \in Callers |-> ""]
    /\ timeout = [p \in Callers |-> 0]
    /\ force_refresh = [p \in Callers |-> FALSE]
    /\ current_time = [p \in Callers |-> 0]
    /\ record = [p \in Callers |-> NoRecord]
    /\ deleted = [p \in Callers |-> <<>>]
    /\ result = [p \in Callers |-> NoRecord]
    /\ responses = 0
    /\ looked = [p \in Callers |-> FALSE]
    /\ fetched = [p \in Callers |-> FALSE]
    /\ alone = [p \in Callers |-> TRUE]
    /\ failed = [p \in Callers |-> {}]
    /\ schema = TRUE
    /\ sent = [p \in Callers |-> <<>>]

\* --------------------------------------------------------------- actions
\* The wall clock advances.
Tick ==
    /\ NoneFinished
    /\ now < MaxTime
    /\ now' = now + 1
    /\ UNCHANGED <<table, pc, url, method, timeout, force_refresh,
                   current_time, record, deleted, result, responses,
                   looked, fetched, alone, failed, schema, sent>>

\* Mutant: the force_refresh test is missing, every call looks up first.
RequestIgnoringForce(p, u, m, t, f) ==
    /\ NoneFinished
    /\ pc[p] = "idle"
    /\ url' = [url EXCEPT ![p] = u]
    /\ method' = [method EXCEPT ![p] = m]
    /\ timeout' = [timeout EXCEPT ![p] = t]
    /\ force_refresh' = [force_refresh EXCEPT ![p] = UnwrapOrFalse(f)]
    /\ current_time' = [current_time EXCEPT ![p] = now]
    /\ alone' = [alone EXCEPT ![p] = \A q \in Callers \ {p} : ~InFlight(q)]
    /\ pc' = [pc EXCEPT ![p] = "query"]
    /\ UNCHANGED <<now, table, record, deleted, result, responses, looked, fetched,
                   failed, schema, sent>>

\* request(): entry and the force_refresh test; without force_refresh the call
\* runs on into get_record(), which reads the clock before it first suspends
Request(p, u, m, t, f) ==
    /\ NoneFinished
    /\ pc[p] = "idle"
    /\ url' = [url EXCEPT ![p] = u]
    /\ method' = [method EXCEPT ![p] = m]
    /\ timeout' = [timeout EXCEPT ![p] = t]
    /\ force_refresh' = [force_refresh EXCEPT ![p] = UnwrapOrFalse(f)]
    /\ current_time' = [current_time EXCEPT ![p] = IF UnwrapOrFalse(f) THEN 0 ELSE now]
    /\ alone' = [alone EXCEPT ![p] = \A q \in Callers \ {p} : ~InFlight(q)]
    /\ pc' = [pc EXCEPT ![p] = IF UnwrapOrFalse(f) THEN "send" ELSE "query"]
    /\ UNCHANGED <<now, table, record, deleted, result, responses, looked, fetched,
                   failed, schema, sent>>

\* Mutant: a hit restarts the TTL of the row it returns.
GetRecordHitSliding(p) ==
    /\ NoneFinished
    /\ pc[p] = "query"
    /\ \E i \in 1..Len(table) :
          /\ table[i] \in QueryCandidates(table, url[p], method[p], current_time[p])
          /\ table' = [table EXCEPT ![i][4] = now + timeout[p]]
          /\ result' = [result EXCEPT ![p] = DecodeRow(table'[i])]
    /\ looked' = [looked EXCEPT ![p] = TRUE]
    /\ pc' = [pc EXCEPT ![p] = "done"]
    /\ UNCHANGED <<now, url, method, timeout, force_refresh, current_time,
                   record, deleted, responses, fetched, alone, failed, schema, sent>>

\* get_record(): the query returns a row; request() returns it (Some(x) => x)
GetRecordHit(p) ==
    /\ NoneFinished
    /\ pc[p] = "query"
    /\ \E row \in QueryCandidates(table, url[p], method[p], current_time[p]) :
          result' = [result EXCEPT ![p] = DecodeRow(row)]
    /\ looked' = [looked EXCEPT ![p] = TRUE]
    /\ pc' = [pc EXCEPT ![p] = "done"]
    /\ UNCHANGED <<now, table, url, method, timeout, force_refresh, current_time,
                   record, deleted, responses, fetched, alone, failed, schema, sent>>

\* get_record(): the query returns no row (.ok() gives None); request() goes
\* on to make_request()
GetRecordMiss(p) ==
    /\ NoneFinished
    /\ pc[p] = "query"
    /\ QueryCandidates(table, url[p], method[p], current_time[p]) = {}
    /\ looked' = [looked EXCEPT ![p] = TRUE]
    /\ current_time' = [current_time EXCEPT ![p] = 0]
    /\ pc' = [pc EXCEPT ![p] = "send"]
    /\ UNCHANGED <<now, table, url, method, timeout, force_refresh,
                   record, deleted, result, responses, fetched, alone, failed, schema, sent>>

\* Mutant: the new record keeps the expiry of a stored row of the identity
\* that outlives it.
MakeRequestResponseKeepExpiry(p) ==
    /\ NoneFinished
    /\ pc[p] = "send"
    /\ responses < MaxFetches
    /\ responses' = responses + 1
    /\ fetched' = [fetched EXCEPT ![p] = TRUE]
    /\ LET old == RowsFor(table, url[p], method[p])
           exp == IF old # <<>> /\ old[1][4] > now + timeout[p]
                  THEN old[1][4] ELSE now + timeout[p]
       IN  record' = [record EXCEPT ![p] =
                        Record(url[p], method[p], responses + 1, exp, FALSE)]
    /\ timeout' = [timeout EXCEPT ![p] = 0]
    /\ sent' = [sent EXCEPT ![p] = ClientGet(url[p])]
    /\ pc' = [pc EXCEPT ![p] = "delete"]
    /\ UNCHANGED <<now, table, url, method, force_refresh, current_time,
                   deleted, result, looked, alone, failed, schema>>

\* Mutant: a response fetched with a timeout <= 0 is returned without being
\* written.
MakeRequestResponseSkipNonPositive(p) ==
    /\ NoneFinished
    /\ pc[p] = "send"
    /\ responses < MaxFetches
    /\ responses' = responses + 1
    /\ fetched' = [fetched EXCEPT ![p] = TRUE]
    /\ record' = [record EXCEPT ![p] =
                    Record(url[p], method[p], responses + 1, now + timeout[p], FALSE)]
    /\ result' = [result EXCEPT ![p] = IF timeout[p] <= 0 THEN record'[p] ELSE @]
    /\ timeout' = [timeout EXCEPT ![p] = 0]
    /\ sent' = [sent EXCEPT ![p] = ClientGet(url[p])]
    /\ pc' = [pc EXCEPT ![p] = IF timeout[p] <= 0 THEN "done" ELSE "delete"]
    /\ UNCHANGED <<now, table, url, method, force_refresh, current_time,
                   deleted, looked, alone, failed, schema>>

\* make_request(): the response text arrives; the expiry is computed from the
\* clock and the Record is built.  The body is the serial number of the
\* response; sent keeps the call the transport was given.
MakeRequestResponse(p) ==
    /\ NoneFinished
    /\ pc[p] = "send"
    /\ responses < MaxFetches
    /\ responses' = responses + 1
    /\ fetched' = [fetched EXCEPT ![p] = TRUE]
    /\ record' = [record EXCEPT ![p] =
                    Record(url[p], method[p], responses + 1, now + timeout[p], FALSE)]
    /\ timeout' = [timeout EXCEPT ![p] = 0]
    /\ sent' = [sent EXCEPT ![p] = ClientGet(url[p])]
    /\ pc' = [pc EXCEPT ![p] = "delete"]
    /\ UNCHANGED <<now, table, url, method, force_refresh, current_time,
                   deleted, result, looked, alone, failed, schema>>

\* Mutant: the rows of the identity are deleted before the response is awaited.
MakeRequestPanicAfterDelete(p) ==
    /\ NoneFinished
    /\ pc[p] = "send"
    /\ table' = DeleteRows(table, url[p], method[p])
    /\ fetched' = [fetched EXCEPT ![p] = TRUE]
    /\ sent' = [sent EXCEPT ![p] = ClientGet(url[p])]
    /\ pc' = [pc EXCEPT ![p] = "panicked"]
    /\ UNCHANGED <<now, url, method, timeout, force_refresh, current_time,
                   record, deleted, result, responses, looked, alone, failed, schema>>

\* make_request(): send() or text() fails and unwrap() panics
MakeRequestPanic(p) ==
    /\ NoneFinished
    /\ pc[p] = "send"
    /\ fetched' = [fetched EXCEPT ![p] = TRUE]
    /\ sent' = [sent EXCEPT ![p] = ClientGet(url[p])]
    /\ pc' = [pc EXCEPT ![p] = "panicked"]
    /\ UNCHANGED <<now, table, url, method, timeout, force_refresh, current_time,
                   record, deleted, result, responses, looked, alone, failed, schema>>

\* insert_record(): the DELETE statement; deleted keeps the rows it removed
\* (the code discards the count execute() returns)
InsertRecordDelete(p) ==
    /\ NoneFinished
    /\ pc[p] = "delete"
    /\ table' = DeleteRows(table, record[p].request, record[p].method)
    /\ deleted' = [deleted EXCEPT ![p] =
                     RowsFor(table, record[p].request, record[p].method)]
    /\ pc' = [pc EXCEPT ![p] = "insert"]
    /\ UNCHANGED <<now, url, method, timeout, force_refresh, current_time,
                   record, result, responses, looked, fetched, alone, failed, schema, sent>>

\* insert_record(): the INSERT statement; make_request() returns the record
InsertRecordInsert(p) ==
    /\ NoneFinished
    /\ pc[p] = "insert"
    /\ table' = InsertRow(table, record[p])
    /\ result' = [result EXCEPT ![p] = record[p]]
    /\ pc' = [pc EXCEPT ![p] = "done"]
    /\ UNCHANGED <<now, url, method, timeout, force_refresh, current_time,
                   record, deleted, responses, looked, fetched, alone, failed, schema, sent>>

\* get_record(): the store answers the SELECT with an error; .ok() turns the
\* Err into None and request() goes on to make_request()
GetRecordError(p) ==
    /\ NoneFinished
    /\ pc[p] = "query"
    /\ failed' = [failed EXCEPT ![p] = @ \cup {"select"}]
    /\ looked' = [looked EXCEPT ![p] = TRUE]
    /\ current_time' = [current_time EXCEPT ![p] = 0]
    /\ pc' = [pc EXCEPT ![p] = "send"]
    /\ UNCHANGED <<now, table, url, method, timeout, force_refresh,
                   record, deleted, result, responses, fetched, alone, schema, sent>>

\* insert_record(): the store answers the DELETE with an error; `let _ =`
\* drops the Err and the INSERT follows
InsertRecordDeleteError(p) ==
    /\ NoneFinished
    /\ pc[p] = "delete"
    /\ failed' = [failed EXCEPT ![p] = @ \cup {"delete"}]
    /\ pc' = [pc EXCEPT ![p] = "insert"]
    /\ UNCHANGED <<now, table, url, method, timeout, force_refresh, current_time,
                   record, deleted, result, responses, looked, fetched, alone,
                   schema, sent>>

\* insert_record(): the store answers the INSERT with an error;
\* insert_record() returns the Err and unwrap() in make_request() panics
InsertRecordInsertError(p) ==
    /\ NoneFinished
    /\ pc[p] = "insert"
    /\ failed' = [failed EXCEPT ![p] = @ \cup {"insert"}]
    /\ pc' = [pc EXCEPT ![p] = "panicked"]
    /\ UNCHANGED <<now, table, url, method, timeout, force_refresh, current_time,
                   record, deleted, result, responses, looked, fetched, alone,
                   schema, sent>>

\* request() has returned its Record, or the panic has unwound the call: the
\* locals of the call are dropped.  It is the only step enabled once a call
\* has finished.
Retire(p) ==
    /\ pc[p] \in {"done", "panicked"}
    /\ pc' = [pc EXCEPT ![p] = "idle"]
    /\ url' = [url EXCEPT ![p] = ""]
    /\ method' = [method EXCEPT ![p] = ""]
    /\ timeout' = [timeout EXCEPT ![p] = 0]
    /\ force_refresh' = [force_refresh EXCEPT ![p] = FALSE]
    /\ current_time' = [current_time EXCEPT ![p] = 0]
    /\ record' = [record EXCEPT ![p] = NoRecord]
    /\ deleted' = [deleted EXCEPT ![p] = <<>>]
    /\ result' = [result EXCEPT ![p] = NoRecord]
    /\ looked' = [looked EXCEPT ![p] = FALSE]
    /\ fetched' = [fetched EXCEPT ![p] = FALSE]
    /\ alone' = [alone EXCEPT ![p] = TRUE]
    /\ failed' = [failed EXCEPT ![p] = {}]
    /\ sent' = [sent EXCEPT ![p] = <<>>]
    /\ UNCHANGED <<now, table, responses, schema>>

\* A step of a call that is under way.
Step(p) ==
    \/ GetRecordHit(p)
    \/ GetRecordMiss(p)
    \/ MakeRequestResponse(p)
    \/ MakeRequestPanic(p)
    \/ InsertRecordDelete(p)
    \/ InsertRecordInsert(p)
    \/ Retire(p)

\* Callers overlap freely.
Next ==
    \/ Tick
    \/ \E p \in Callers, id \in RaceIdentities, t \in Timeouts, f \in ForceOpts :
          Request(p, id[1], id[2], t, f)
    \/ \E p \in Callers : Step(p)

Spec == Init /\ [][Next]_vars

\* A call is issued only when no other call is under way.
RequestSeq(p, u, m, t, f) ==
    /\ \A q \in Callers : ~InFlight(q)
    /\ Request(p, u, m, t, f)

NextSeq ==
    \/ Tick
    \/ \E p \in Callers, id \in Identities, t \in Timeouts, f \in ForceOpts :
          RequestSeq(p, id[1], id[2], t, f)
    \/ \E p \in Callers : Step(p)

SpecSeq == Init /\ [][NextSeq]_vars

\* Calls that do not overlap, the timeout argument possibly negative.
NextSigned ==
    \/ Tick
    \/ \E p \in Callers, id \in Identities, t \in SignedTimeouts, f \in ForceOpts :
          RequestSeq(p, id[1], id[2], t, f)
    \/ \E p \in Callers : Step(p)

SpecSigned == Init /\ [][NextSigned]_vars

\* The database file before the first connection to it: no table yet.
InitConn ==
    /\ now = 0
    /\ table = <<>>
    /\ pc = [p \in Callers |-> "idle"]
    /\ url = [p \in Callers |-> ""]
    /\ method = [p \in Callers |-> ""]
    /\ timeout = [p \in Callers |-> 0]
    /\ force_refresh = [p \in Callers |-> FALSE]
    /\ current_time = [p \in Callers |-> 0]
    /\ record = [p \in Callers |-> NoRecord]
    /\ deleted = [p \in Callers |-> <<>>]
    /\ result = [p \in Callers |-> NoRecord]
    /\ responses = 0
    /\ looked = [p \in Callers |-> FALSE]
    /\ fetched = [p \in Callers |-> FALSE]
    /\ alone = [p \in Callers |-> TRUE]
    /\ failed = [p \in Callers |-> {}]
    /\ schema = FALSE
    /\ sent = [p \in Callers |-> <<>>]

\* cached_request(): create_connection() opens a connection of its own and
\* runs CREATE TABLE IF NOT EXISTS, then request() is entered on that
\* connection
CachedRequest(p, u, m, t, f) ==
    /\ NoneFinished
    /\ pc[p] = "idle"
    /\ table' = CreateTable(schema, table)
    /\ schema' = TRUE
    /\ url' = [url EXCEPT ![p] = u]
    /\ method' = [method EXCEPT ![p] = m]
    /\ timeout' = [timeout EXCEPT ![p] = t]
    /\ force_refresh' = [force_refresh EXCEPT ![p] = UnwrapOrFalse(f)]
    /\ current_time' = [current_time EXCEPT ![p] = IF UnwrapOrFalse(f) THEN 0 ELSE now]
    /\ alone' = [alone EXCEPT ![p] = \A q \in Callers \ {p} : ~InFlight(q)]
    /\ pc' = [pc EXCEPT ![p] = IF UnwrapOrFalse(f) THEN "send" ELSE "query"]
    /\ UNCHANGED <<now, record, deleted, result, responses, looked, fetched,
                   failed, sent>>

\* Every call opens its own connection; callers overlap freely.
NextConn ==
    \/ Tick
    \/ \E p \in Callers, id \in RaceIdentities, t \in Timeouts, f \in ForceOpts :
          CachedRequest(p, id[1], id[2], t, f)
    \/ \E p \in Callers : Step(p)

SpecConn == InitConn /\ [][NextConn]_vars

\* A statement of a call is answered with an error by the store.
Fault(p) ==
    \/ GetRecordError(p)
    \/ InsertRecordDeleteError(p)
    \/ InsertRecordInsertError(p)

\* Callers overlap freely and the store may fail any statement.
NextFault ==
    \/ Next
    \/ \E p \in Callers : Fault(p)

SpecFault == Init /\ [][NextFault]_vars

\* ---------------------------------------------------------------- claims
\* No call is under way.
Quiescent == \A q \in Callers : ~InFlight(q)

\* C1 (calls that do not overlap): a lookup that finds no row of the identity
\* goes to the network; the call that missed returns a record tagged
\* cached = FALSE and leaves the row of that record as the row of the identity;
\* a lookup that finds that row with expires above the clock it read returns a
\* record tagged cached = TRUE with the body of the row.
C1_MissThenHit ==
    [][\A q \in Callers :
        LET rows == RowsFor(table, url[q], method[q]) IN
        /\ (pc[q] = "query" /\ pc'[q] # "query" /\ rows = <<>>)
           => pc'[q] = "send"
        /\ (pc[q] = "insert" /\ pc'[q] = "done" /\ looked[q])
           => /\ ~result'[q].cached
              /\ RowsFor(table', url[q], method[q]) = <<RowOf(result'[q])>>
        /\ (pc[q] = "query" /\ pc'[q] # "query"
              /\ Len(rows) = 1 /\ rows[1][4] > current_time[q])
           => /\ pc'[q] = "done"
              /\ result'[q].cached
              /\ result'[q].response = rows[1][3]]_vars

\* A hit on the row an earlier fetch stored, before its expiry.
C1_Witness ==
    \E q \in Callers :
        /\ pc[q] = "done" /\ looked[q] /\ ~fetched[q] /\ result[q].cached
        /\ now < result[q].expires
        /\ \E i \in 1..Len(table) :
              /\ table[i][1] = url[q] /\ table[i][2] = method[q]
              /\ table[i][3] = result[q].response

\* C2: a record returned from the cache has expires strictly greater than the
\* clock value its lookup read.
C2_NoStaleHit ==
    \A p \in Callers :
        (pc[p] = "done" /\ result[p].cached) => result[p].expires > current_time[p]

\* A hit while a stale row of the same identity is still in the table.
C2_Witness ==
    \E p \in Callers :
        /\ pc[p] = "done" /\ result[p].cached
        /\ \E i \in 1..Len(table) :
              /\ table[i][1] = url[p] /\ table[i][2] = method[p]
              /\ table[i][4] <= current_time[p]

\* C3 (calls that do not overlap): no identity ever has more than one row, and
\* when a call has returned its identity has exactly one row.
C3_SingleRowSequential ==
    /\ \A id \in Identities : Len(RowsFor(table, id[1], id[2])) <= 1
    /\ \A p \in Callers :
          pc[p] = "done" => Len(RowsFor(table, url[p], method[p])) = 1

\* A forced refresh has replaced the row of an earlier fetch.
C3_Witness ==
    \E p \in Callers :
        /\ Quiescent
        /\ pc[p] = "done" /\ force_refresh[p] /\ ~result[p].cached
        /\ Len(deleted[p]) = 1
        /\ Len(RowsFor(table, url[p], method[p])) = 1

\* C4: once no call is under way, the identity of a call that has returned
\* from a network fetch has exactly one row.
C4_ConcurrentSingleRow ==
    Quiescent =>
        \A p \in Callers :
            (pc[p] = "done" /\ ~result[p].cached)
               => Len(RowsFor(table, url[p], method[p])) = 1

\* C5 (calls that do not overlap): a call with force_refresh that has returned
\* made no lookup and one network fetch, returns the newest response tagged
\* cached = FALSE, and the only row of its identity is the row of the record it
\* returns.
C5_ForceRefreshBypass ==
    \A p \in Callers :
        (pc[p] = "done" /\ force_refresh[p])
        => /\ ~looked[p] /\ fetched[p]
           /\ ~result[p].cached
           /\ result[p].response = responses
           /\ RowsFor(table, url[p], method[p]) = <<RowOf(result[p])>>

\* A forced refresh has returned after replacing a row that was still live.
C5_Witness ==
    \E p \in Callers :
        /\ pc[p] = "done" /\ force_refresh[p] /\ ~result[p].cached
        /\ Len(deleted[p]) = 1
        /\ deleted[p][1][4] > now
        /\ deleted[p][1][3] # result[p].response
        /\ RowsFor(table, url[p], method[p]) = <<RowOf(result[p])>>

\* C6 (calls that do not overlap): a lookup that finds one row of the identity,
\* with expires <= the clock it read, goes to the network; the call that
\* missed returns cached = FALSE and leaves the row of its record as the only
\* row of the identity.
C6_ExpirySupersession ==
    [][\A p \in Callers :
        LET rows == RowsFor(table, url[p], method[p]) IN
        /\ (pc[p] = "query" /\ pc'[p] # "query"
              /\ Len(rows) = 1 /\ rows[1][4] <= current_time[p])
           => pc'[p] = "send"
        /\ (pc[p] = "insert" /\ pc'[p] = "done" /\ ~force_refresh[p])
           => /\ ~result'[p].cached
              /\ RowsFor(table', url[p], method[p]) = <<RowOf(result'[p])>>]_vars

\* A call has missed on an expired row, fetched, and replaced that row.
C6_Witness ==
    \E p \in Callers :
        /\ pc[p] = "done" /\ ~force_refresh[p] /\ looked[p] /\ ~result[p].cached
        /\ Len(deleted[p]) = 1
        /\ deleted[p][1][4] <= now
        /\ RowsFor(table, url[p], method[p]) = <<RowOf(result[p])>>

\* C7: a lookup issued and answered while no other call is under way, all rows
\* of its identity being live and of different expires, returns the body and
\* expires of the row that was inserted last.
C7_LastWriterWins ==
    [][\A q \in Callers :
        LET rows == RowsFor(table, url[q], method[q]) IN
        (/\ pc[q] = "query" /\ pc'[q] = "done"
         /\ alone[q]
         /\ \A p \in Callers \ {q} : ~InFlight(p)
         /\ \A i \in 1..Len(rows) : rows[i][4] > current_time[q]
         /\ \A i, j \in 1..Len(rows) : i # j => rows[i][4] # rows[j][4])
        => /\ result'[q].response = rows[Len(rows)][3]
           /\ result'[q].expires = rows[Len(rows)][4]]_vars

\* C8 (calls that do not overlap): a record returned from the cache is a row
\* stored for exactly the url and the method of the call.
C8_IdentityIndependence ==
    \A q \in Callers :
        (pc[q] = "done" /\ result[q].cached)
        => \E i \in 1..Len(table) :
              /\ table[i][1] = url[q] /\ table[i][2] = method[q]
              /\ table[i][3] = result[q].response
              /\ table[i][4] = result[q].expires

\* A lookup of an identity without rows has missed while the table holds a
\* live row of another identity with the same url.
C8_Witness ==
    \E q \in Callers :
        /\ pc[q] = "send" /\ looked[q]
        /\ RowsFor(table, url[q], method[q]) = <<>>
        /\ \E i \in 1..Len(table) :
              /\ table[i][1] = url[q] /\ table[i][2] # method[q]
              /\ table[i][4] > now

\* C9: the steps of a call that hits (entry without force_refresh, and the
\* lookup that returns a row) leave the table and the count of transport
\* responses unchanged; the hit makes no network call and returns the expires
\* of a stored row of the identity.
C9_HitNoSideEffects ==
    [][\A p \in Callers :
        /\ (pc[p] # "query" /\ pc'[p] = "query")
           => (table' = table /\ responses' = responses)
        /\ (pc[p] = "query" /\ pc'[p] = "done")
           => /\ table' = table /\ responses' = responses
              /\ ~fetched'[p] /\ result'[p].cached
              /\ \E i \in 1..Len(table') :
                    /\ table'[i][1] = url[p] /\ table'[i][2] = method[p]
                    /\ table'[i][3] = result'[p].response
                    /\ table'[i][4] = result'[p].expires]_vars

\* A hit whose TTL argument would have given another expires.
C9_Witness ==
    \E p \in Callers :
        /\ pc[p] = "done" /\ result[p].cached /\ ~fetched[p]
        /\ timeout[p] > 0
        /\ result[p].expires # now + timeout[p]

\* C10: a call panics only while it awaits the transport, and no step of a
\* call up to and including the panic (entry, lookup, miss, panic) changes the
\* table.
C10_NoWriteOnFetchFailure ==
    [][\A p \in Callers :
        (pc'[p] # pc[p] /\ pc'[p] \in {"query", "send", "panicked"})
        => /\ table' = table
           /\ pc[p] \in {"idle", "query", "send"}
           /\ (pc'[p] = "panicked" => pc[p] = "send")]_vars

\* A forced call has panicked and the live row stored before is still there.
C10_Witness ==
    \E p \in Callers :
        /\ pc[p] = "panicked" /\ force_refresh[p] /\ ~looked[p]
        /\ \E i \in 1..Len(table) :
              /\ table[i][1] = url[p] /\ table[i][2] = method[p]
              /\ table[i][4] > now

\* C11: a call whose INSERT failed after the transport answered does not end
\* the way a transport failure ends (by a panic), and what it hands back to
\* its caller carries the body that was fetched.
C11_FetchedContentKept ==
    \A p \in Callers :
        ("insert" \in failed[p] /\ pc[p] \in {"done", "panicked"})
        => /\ pc[p] # "panicked"
           /\ result[p].response = record[p].response

\* C12: a call whose SELECT was answered with an error does not go on to the
\* transport nor to the DELETE and INSERT.
C12_LookupErrorNotMiss ==
    \A p \in Callers :
        "select" \in failed[p]
        => /\ pc[p] \notin {"send", "delete", "insert"}
           /\ ~fetched[p]

\* C13 (every call through cached_request): opening a connection to a
\* database that has the table leaves every row as it was, and the lookup of
\* a call on a connection opened later that finds a live row of its identity
\* returns from the cache.
C13_SchemaBootstrapIdempotent ==
    [][\A p \in Callers :
        /\ (pc[p] = "idle" /\ pc'[p] # "idle")
           => /\ schema'
              /\ schema => table' = table
        /\ (pc[p] = "query" /\ pc'[p] # "query"
              /\ \E i \in 1..Len(table) :
                    /\ table[i][1] = url[p] /\ table[i][2] = method[p]
                    /\ table[i][4] > current_time[p])
           => /\ pc'[p] = "done"
              /\ result'[p].cached]_vars

\* A call that opened its own connection is served the row an earlier call
\* (on another connection) has written.
C13_Witness ==
    \E p \in Callers :
        /\ schema
        /\ pc[p] = "done" /\ looked[p] /\ ~fetched[p] /\ result[p].cached
        /\ RowsFor(table, url[p], method[p]) # <<>>

\* C14: while a call is between its DELETE and its INSERT, having deleted a
\* row that is live for a lookup of the same identity by another call, that
\* lookup (answered by the store) does not miss; and a call whose INSERT
\* fails after its DELETE removed rows does not leave the identity without
\* a row.
C14_ReplaceAtomic ==
    [][\A p \in Callers :
        /\ \A q \in Callers \ {p} :
              (/\ pc[p] = "insert"
               /\ pc[q] = "query" /\ pc'[q] # "query" /\ failed'[q] = failed[q]
               /\ url[q] = record[p].request /\ method[q] = record[p].method
               /\ \E i \in 1..Len(deleted[p]) : deleted[p][i][4] > current_time[q])
              => pc'[q] = "done"
        /\ (pc[p] = "insert" /\ pc'[p] = "panicked" /\ deleted[p] # <<>>)
           => RowsFor(table', record[p].request, record[p].method) # <<>>]_vars

\* C15 (calls that do not overlap): a record returned from the cache has the
\* request, method, response and expires of a stored row, that is of the record
\* the fetch that stored it has returned, and they are the url and method asked
\* for.
C15_CachedRecordSameFields ==
    \A p \in Callers :
        (pc[p] = "done" /\ result[p].cached)
        => /\ \E i \in 1..Len(table) : table[i] = RowOf(result[p])
           /\ result[p].request = url[p]
           /\ result[p].method = method[p]

\* C16: the record built when the response has arrived has expires = the
\* clock at that moment + the timeout argument of the call; the record is not
\* changed before it is written; and the row the INSERT appends carries the
\* expires of that record, whatever rows the identity had before.
C16_ExpiryIsClockPlusTtl ==
    [][\A p \in Callers :
        /\ (pc[p] = "send" /\ pc'[p] = "delete")
           => record'[p].expires = now + timeout[p]
        /\ (pc[p] \in {"delete", "insert"} /\ pc'[p] \in {"delete", "insert"})
           => record'[p] = record[p]
        /\ (pc[p] = "insert" /\ pc'[p] = "done")
           => /\ Len(table') = Len(table) + 1
              /\ table'[Len(table')][4] = record[p].expires
              /\ result'[p].expires = record[p].expires]_vars

\* A refetch has replaced a row that would have outlived the row it wrote.
C16_Witness ==
    \E p \in Callers :
        /\ pc[p] = "done" /\ ~result[p].cached
        /\ deleted[p] # <<>>
        /\ deleted[p][1][4] > result[p].expires
        /\ table # <<>>
        /\ table[Len(table)][4] = result[p].expires

\* C17 (calls that do not overlap): the call a request hands to the transport
\* has the url and the method of the request, and the row written afterwards
\* is stored under the url and method the transport was given.
C17_TransportUsesMethod ==
    \A p \in Callers :
        sent[p] # <<>>
        => /\ sent[p] = <<url[p], method[p]>>
           /\ pc[p] \in {"delete", "insert", "done"}
              => <<record[p].request, record[p].method>> = sent[p]

\* C18: the row a lookup returns is a row of the identity that is live at the
\* clock the lookup read, and no row of the identity that is live at that
\* clock has a larger expires.
C18_LargestExpiresWins ==
    [][\A p \in Callers :
        (pc[p] = "query" /\ pc'[p] = "done")
        => /\ \E i \in 1..Len(table) :
                 /\ table[i][1] = url[p] /\ table[i][2] = method[p]
                 /\ table[i][4] > current_time[p]
                 /\ table[i][3] = result'[p].response
                 /\ table[i][4] = result'[p].expires
           /\ \A i \in 1..Len(table) :
                 (/\ table[i][1] = url[p] /\ table[i][2] = method[p]
                  /\ table[i][4] > current_time[p])
                 => table[i][4] <= result'[p].expires]_vars

\* A hit while the identity has two live rows of different expires.
C18_Witness ==
    \E p \in Callers :
        /\ pc[p] = "done" /\ result[p].cached
        /\ \E i, j \in 1..Len(table) :
              /\ table[i][1] = url[p] /\ table[i][2] = method[p]
              /\ table[j][1] = url[p] /\ table[j][2] = method[p]
              /\ table[i][4] > current_time[p]
              /\ table[j][4] > table[i][4]
              /\ result[p].expires = table[j][4]

\* C19 (calls that do not overlap): the DELETE and the INSERT of a call leave
\* the rows of every other identity as they were; the rows of an identity
\* change only in a DELETE or INSERT for that identity; and when the INSERT is
\* done the only row of its identity is the row of the record just fetched.
C19_ReplaceOwnIdentityOnly ==
    [][/\ \A p \in Callers :
            LET own == <<record[p].request, record[p].method>> IN
            /\ (pc[p] \in {"delete", "insert"} /\ pc'[p] # pc[p])
               => \A id \in Identities \ {own} :
                     RowsFor(table', id[1], id[2]) = RowsFor(table, id[1], id[2])
            /\ (pc[p] = "insert" /\ pc'[p] = "done")
               => RowsFor(table', own[1], own[2]) = <<RowOf(record[p])>>
       /\ \A id \in Identities :
            RowsFor(table', id[1], id[2]) # RowsFor(table, id[1], id[2])
            => \E p \in Callers :
                  /\ pc[p] \in {"delete", "insert"} /\ pc'[p] # pc[p]
                  /\ id = <<record[p].request, record[p].method>>]_vars

\* The DELETE and INSERT of a call have run while the table held a row of
\* another identity with the same url, stored by an earlier fetch, and that
\* row is still there.
C19_Witness ==
    \E p \in Callers :
        /\ pc[p] = "done" /\ ~result[p].cached
        /\ RowsFor(table, url[p], method[p]) = <<RowOf(result[p])>>
        /\ \E i \in 1..Len(table) :
              /\ table[i][1] = url[p] /\ table[i][2] # method[p]
              /\ table[i][3] < result[p].response

\* C20 (calls that do not overlap, timeouts from -1 up, a clock that never
\* goes back): a response fetched with a timeout <= 0 goes on to be written,
\* with expires not above the clock; the INSERT leaves the row of the record
\* as the only row of the identity; and a lookup that finds no row of its
\* identity with expires above the clock it read goes to the network.
C20_NonPositiveTtlNeverServed ==
    [][/\ now' >= now
       /\ \A p \in Callers :
            LET rows == RowsFor(table, url[p], method[p]) IN
            /\ (pc[p] = "send" /\ pc'[p] \notin {"send", "panicked"} /\ timeout[p] <= 0)
               => /\ pc'[p] = "delete"
                  /\ record'[p].expires <= now
            /\ (pc[p] = "insert" /\ pc'[p] # "insert")
               => RowsFor(table', url[p], method[p]) = <<RowOf(record[p])>>
            /\ (pc[p] = "idle" /\ pc'[p] = "query")
               => current_time'[p] = now
            /\ (pc[p] = "query" /\ pc'[p] # "query"
                  /\ \A i \in 1..Len(rows) : rows[i][4] <= current_time[p])
               => pc'[p] = "send"]_vars

\* A call without force_refresh, issued at clock 0, has missed on a row with
\* expires 0 (written at clock 0 with timeout 0), has fetched again and has
\* replaced that row.
C20_Witness ==
    \E p \in Callers :
        /\ now = 0
        /\ pc[p] = "done" /\ ~force_refresh[p] /\ looked[p] /\ ~result[p].cached
        /\ Len(deleted[p]) = 1
        /\ deleted[p][1][4] = 0
        /\ Len(RowsFor(table, url[p], method[p])) = 1

TypeOK ==
    /\ now \in 0..MaxTime
    /\ responses \in 0..MaxFetches
    /\ \A p \in Callers : pc[p] \in {"idle", "query", "send", "delete",
                                     "insert", "done", "panicked"}
====
